---------------------------- MODULE Spec2Model ----------------------------
(***************************************************************************)
(* A model of the resume data-access layer of ATS_Resume.                  *)
(*                                                                         *)
(* The repository holds two variants of the layer:                         *)
(*   "pool"  : src/src/lib/supabase.ts, the pooled client with             *)
(*             executeWithPermanentConnection (fixed short delay, every    *)
(*             error retried);                                             *)
(*   "retry" : src/src/hooks/useConnectionRecovery.ts (lines 61-455), the  *)
(*             single client with withRetry (classification of the error   *)
(*             and exponential backoff).                                   *)
(* The variable `variant` says which one a behaviour runs.                 *)
(***************************************************************************)
EXTENDS Integers, Sequences, FiniteSets, TLC

VARIABLES
    variant,      \* "pool" | "retry": which variant of the layer runs
    pc,           \* position of the executor call: idle, op, sleep, returned, threw
    opKind,       \* the operation the executor runs: "mock", or a repository operation
    attempt,      \* the loop variable `attempt` of the executor
    lastError,    \* the executor's local `lastError`
    currentIndex, \* SupabaseConnectionPool.currentIndex
    client,       \* the handle the executor's attempt passes to the operation
    delays,       \* the delays slept by the current executor call, in order
    outcome,      \* terminal outcomes of the current executor call, in order
    calls,        \* mock operation: how many times it was invoked
    raised,       \* mock operation: the errors it threw, in order
    returned,     \* mock operation: the results it returned, in order
    resumes,                \* table resumes: its rows, in physical order
    resume_experiences,     \* table resume_experiences
    resume_education,       \* table resume_education
    resume_certifications,  \* table resume_certifications
    now,          \* the clock new Date() reads
    nextUuid,     \* how many identifiers uuidv4() has generated
    arg,          \* the argument of the repository operation in progress
    local,        \* the locals of the operation's current attempt
    inflight,     \* the backend call the current attempt awaits (None: none)
    failed,       \* the backend call that failed in the current attempt (None: none)
    result,       \* the result/error pair the last repository operation returned
    writes,       \* how many save and delete operations were called
    saved,        \* what the caller last saved: the resume of the last save that
                  \* returned without error and the identifier it returned
                  \* (Null: none, or deleted since)
    outages,      \* how many operations met a failing backend call
    hit,          \* whether the operation in progress met a failing backend call
    clients,      \* SupabaseConnectionPool.clients: the handles, in order
    nextHandle,   \* how many handles createSupabaseClient() has made
    healthCheckInterval,  \* SupabaseConnectionPool.healthCheckInterval: a timer id
    timers,       \* the interval timers of the runtime that are set
    probing,      \* the handles of the health-check reads in flight, in order of issue
    acquired,     \* the handles getClient() returned since the last rebuild, in
                  \* order: the last MaxAcquired of them
    stops,        \* how many times destroy() was called
    lastCheck,    \* how the health-check read that ended last ended (none: none yet)
    warmup,       \* the handle of the warm-up read in flight (NoHandle: none)
    monitor,      \* which reachability monitor is mounted (none: none yet)
    phase,        \* its effect: unmounted, mounted, torn (cleaned up)
    isConnected,  \* the state isConnected of a ConnectionStatus component:
                  \* "null", "true", "false"
    isChecking,   \* its state isChecking (isActive in the first component)
    timeouts,     \* how many 500 ms timeouts of the first component are pending
    interval,     \* the timer id `interval` of the effect (0: none)
    listeners,    \* the events the effect's handlers are registered for
    flights,      \* the probes whose read is in flight, in order of issue
    issued,       \* how many probes were started
    reads,        \* how many backend reads the probes issued
    completed,    \* the probes that ended, in order of their end
    callbacks,    \* the subscriber callbacks invoked, in order
    triggers,     \* what started each probe, in order of issue: effect, tick,
                  \* event, retry, host
    clears,       \* the timer ids the effect's cleanups called clearInterval with,
                  \* in order
    running       \* the calls of saveResume that run side by side

execVars == <<variant, pc, opKind, attempt, lastError, currentIndex, client, acquired,
              delays, outcome>>
mockVars == <<calls, raised, returned>>
storeVars == <<resumes, resume_experiences, resume_education, resume_certifications>>
opVars == <<now, nextUuid, arg, local, inflight, failed, result, writes, saved>>
envVars == <<outages, hit>>
poolVars == <<clients, nextHandle, healthCheckInterval, timers, probing, stops,
              lastCheck, warmup>>
monVars == <<monitor, phase, isConnected, isChecking, timeouts, interval, listeners,
             flights, issued, reads, completed, callbacks, triggers, clears>>
restVars == <<poolVars, monVars, running>>
vars == <<execVars, mockVars, storeVars, opVars, envVars, restVars>>

---------------------------------------------------------------------------
(* Program constants *)

\* supabase.ts:58  private readonly poolSize = 5
poolSize == 5

\* supabase.ts:119  maxRetries: number = 5 (no caller passes another value)
maxRetries == 5

\* supabase.ts:135  setTimeout(resolve, 100 * (attempt + 1))
shortDelay == 100

\* useConnectionRecovery.ts:95-99
RETRY_CONFIG == [maxRetries |-> 3, baseDelay |-> 1000, maxDelay |-> 5000]

\* null / undefined of the source
Null == [null |-> TRUE]

\* no backend call
None == <<"none", 0>>

---------------------------------------------------------------------------
(* Errors.  A thrown value is a record: the characters of its message, whether   *)
(* it is an instance of Error (a PostgrestError value returned by the      *)
(* client is a plain object in the client versions of this repository's    *)
(* time, a rejected fetch is a TypeError), and `at`, the invocation that   *)
(* raised it (0: raised by no invocation), which gives it its identity.    *)

ErrorSamples ==
    { [message |-> <<"C", "o", "n", "n", "e", "c", "t", "i", "o", "n", " ",
                     "r", "e", "f", "u", "s", "e", "d">>,
       isError |-> TRUE],
      [message |-> <<"R", "e", "q", "u", "e", "s", "t", " ", "T", "i", "m",
                     "e", "o", "u", "t">>,
       isError |-> TRUE],
      [message |-> <<"B", "a", "d", " ", "G", "a", "t", "e", "w", "a", "y",
                     " ", "(", "5", "0", "2", ")">>,
       isError |-> TRUE],
      [message |-> <<"d", "u", "p", "l", "i", "c", "a", "t", "e", " ", "k",
                     "e", "y">>,
       isError |-> TRUE],
      [message |-> <<"F", "a", "i", "l", "e", "d", " ", "t", "o", " ", "f",
                     "e", "t", "c", "h">>,
       isError |-> FALSE] }

RaisedBy(sample, n) ==
    [message |-> sample.message, isError |-> sample.isError, at |-> n]

\* supabase.ts:121  let lastError: Error = new Error('Unknown error occurred')
UnknownError ==
    [message |-> <<"U", "n", "k", "n", "o", "w", "n", " ", "e", "r", "r",
                   "o", "r", " ", "o", "c", "c", "u", "r", "r", "e", "d">>,
     isError |-> TRUE, at |-> 0]

\* useConnectionRecovery.ts:112  let lastError: Error;  (declared, not assigned)
Undefined == [message |-> <<>>, isError |-> FALSE, at |-> 0]

\* the capital letters and the small letters of ASCII
Upper ==
    <<"A", "B", "C", "D", "E", "F", "G", "H", "I", "J", "K", "L", "M", "N",
      "O", "P", "Q", "R", "S", "T", "U", "V", "W", "X", "Y", "Z">>

Lower ==
    <<"a", "b", "c", "d", "e", "f", "g", "h", "i", "j", "k", "l", "m", "n",
      "o", "p", "q", "r", "s", "t", "u", "v", "w", "x", "y", "z">>

\* String.prototype.toLowerCase, on a string of ASCII characters: every
\* capital letter becomes its small letter, every other character stays
toLowerCase(s) ==
    [i \in DOMAIN s |->
        IF \E k \in DOMAIN Upper : Upper[k] = s[i]
        THEN Lower[CHOOSE k \in DOMAIN Upper : Upper[k] = s[i]]
        ELSE s[i]]

\* String.prototype.includes: sub occurs in s as a substring
includes(s, sub) ==
    \E i \in 0..(Len(s) - Len(sub)) : SubSeq(s, i + 1, i + Len(sub)) = sub

\* useConnectionRecovery.ts:131-138: the substrings that make an error retryable
Indicators ==
    { <<"c", "o", "n", "n", "e", "c", "t", "i", "o", "n">>,
      <<"t", "i", "m", "e", "o", "u", "t">>,
      <<"n", "e", "t", "w", "o", "r", "k">>,
      <<"f", "e", "t", "c", "h">>,
      <<"r", "e", "f", "u", "s", "e", "d">>,
      <<"5", "0", "2">>,
      <<"5", "0", "3">>,
      <<"5", "0", "4">> }

\* useConnectionRecovery.ts:129-138
isRetryable(e) ==
    LET errorMessage == IF e.isError THEN toLowerCase(e.message) ELSE <<>>
    IN \E indicator \in Indicators : includes(errorMessage, indicator)

---------------------------------------------------------------------------
(* Backoff *)

RECURSIVE Pow2(_)
Pow2(k) == IF k = 0 THEN 1 ELSE 2 * Pow2(k - 1)

Min(a, b) == IF a <= b THEN a ELSE b

calculateDelay_linear(k) ==
    Min(RETRY_CONFIG.baseDelay * (k + 1), RETRY_CONFIG.maxDelay)

\* useConnectionRecovery.ts:102-105
calculateDelay(k) ==
    LET delay == RETRY_CONFIG.baseDelay * Pow2(k)
    IN Min(delay, RETRY_CONFIG.maxDelay)

\* supabase.ts:135
immediateDelay(k) == shortDelay * (k + 1)

---------------------------------------------------------------------------
(* The executor: executeWithPermanentConnection (pool) and withRetry       *)
(* (retry).  One action is the code between two awaits.                    *)

getClient_noWrap == currentIndex + 1

\* supabase.ts:96-100  getClient advances the round-robin index
getClient == (currentIndex + 1) % poolSize

\* undefined: this.clients[i] where the array has no element i
NoHandle == 0

\* supabase.ts:97  this.clients[this.currentIndex]
clientAt(cs, index) == IF index + 1 \in DOMAIN cs THEN cs[index + 1] ELSE NoHandle

\* how many of the handles getClient() returned are kept: the last MaxAcquired
MaxAcquired == 6

\* the handles returned when h is returned next
Taken(h) ==
    LET all == Append(acquired, h)
    IN IF Len(all) > MaxAcquired THEN Tail(all) ELSE all

\* supabase.ts:96-100: getClient() returns the handle at the index and
\* advances the index
Acquire ==
    /\ acquired' = Taken(clientAt(clients, currentIndex))
    /\ currentIndex' = getClient

LoopContinues_short(a) ==
    IF variant = "pool" THEN a < maxRetries ELSE a < RETRY_CONFIG.maxRetries

\* the loop condition: supabase.ts:123, useConnectionRecovery.ts:114
LoopContinues(a) ==
    IF variant = "pool" THEN a < maxRetries ELSE a <= RETRY_CONFIG.maxRetries

Enter_keepsHandle(a) ==
    /\ attempt' = a
    /\ client' = IF variant = "pool" /\ a = 0 THEN clientAt(clients, currentIndex)
                                              ELSE client
    /\ IF variant = "pool" /\ a = 0 THEN Acquire ELSE UNCHANGED <<currentIndex, acquired>>
    /\ pc' = "op"

\* Entering the loop body: the handle is acquired (pool) and the operation
\* is invoked.  supabase.ts:123-126, useConnectionRecovery.ts:114-116
Enter(a) ==
    /\ attempt' = a
    /\ client' = IF variant = "pool" THEN clientAt(clients, currentIndex) ELSE client
    /\ IF variant = "pool" THEN Acquire ELSE UNCHANGED <<currentIndex, acquired>>
    /\ pc' = "op"

\* throw lastError after the loop: supabase.ts:141, useConnectionRecovery.ts:151
ThrowAfterLoop(e) ==
    /\ pc' = "threw"
    /\ outcome' = Append(outcome, [kind |-> "threw", val |-> e])
    /\ UNCHANGED <<attempt, delays>>

\* throw error inside the catch block: useConnectionRecovery.ts:140-142
ThrowNow(e) ==
    /\ pc' = "threw"
    /\ outcome' = Append(outcome, [kind |-> "threw", val |-> e])
    /\ UNCHANGED <<attempt, delays>>

Backoff(d) ==
    /\ pc' = "sleep"
    /\ delays' = Append(delays, d)
    /\ UNCHANGED <<attempt, outcome>>

WithRetryCatch_retryAll(e) ==
    /\ lastError' = e
    /\ IF attempt = RETRY_CONFIG.maxRetries
       THEN ThrowAfterLoop(e)
       ELSE Backoff(calculateDelay(attempt))

\* useConnectionRecovery.ts:117-148: the catch block of withRetry
WithRetryCatch(e) ==
    /\ lastError' = e
    /\ IF attempt = RETRY_CONFIG.maxRetries
       THEN ThrowAfterLoop(e)
       ELSE IF ~isRetryable(e)
            THEN ThrowNow(e)
            ELSE Backoff(calculateDelay(attempt))

PermanentCatch_stale(e) ==
    /\ lastError' = lastError
    /\ IF attempt < maxRetries - 1
       THEN Backoff(immediateDelay(attempt))
       ELSE ThrowAfterLoop(lastError)

\* supabase.ts:128-141: the catch block of executeWithPermanentConnection;
\* on the last attempt the loop ends and lastError is thrown
PermanentCatch(e) ==
    /\ lastError' = e
    /\ IF attempt < maxRetries - 1
       THEN Backoff(immediateDelay(attempt))
       ELSE ThrowAfterLoop(e)

\* The operation of the current attempt threw e.
Catch(e) ==
    /\ pc = "op"
    /\ IF variant = "pool" THEN PermanentCatch(e) ELSE WithRetryCatch(e)
    /\ UNCHANGED <<variant, opKind, currentIndex, client, acquired>>

\* The operation of the current attempt returned v:
\* supabase.ts:126-127, useConnectionRecovery.ts:116
Return(v) ==
    /\ pc = "op"
    /\ pc' = "returned"
    /\ outcome' = Append(outcome, [kind |-> "returned", val |-> v])
    /\ UNCHANGED <<variant, opKind, attempt, lastError, currentIndex, client, acquired,
                   delays>>

\* The call of the executor, up to the first await.
\* supabase.ts:121-126, useConnectionRecovery.ts:112-116
Begin(kind) ==
    /\ opKind' = kind
    /\ lastError' = IF variant = "pool" THEN UnknownError ELSE Undefined
    /\ delays' = <<>>
    /\ UNCHANGED variant
    /\ IF LoopContinues(0)
       THEN /\ Enter(0)
            /\ outcome' = <<>>
       ELSE /\ pc' = "threw"
            /\ outcome' = <<[kind |-> "threw", val |-> lastError']>>
            /\ UNCHANGED <<attempt, currentIndex, client, acquired>>

\* The backoff timer fires: attempt++ and the next turn of the loop.
\* supabase.ts:135-136, 123 and 141; useConnectionRecovery.ts:147, 114 and 151
Wake ==
    /\ pc = "sleep"
    /\ IF LoopContinues(attempt + 1)
       THEN /\ Enter(attempt + 1)
            /\ UNCHANGED <<delays, outcome>>
       ELSE /\ ThrowAfterLoop(lastError)
            /\ UNCHANGED <<currentIndex, client, acquired>>
    /\ UNCHANGED <<variant, opKind, lastError>>

---------------------------------------------------------------------------
(* The executor on a mock operation that records its invocations.          *)

MockResults == {"v1", "v2"}

CallMock ==
    /\ pc = "idle"
    /\ Begin("mock")
    /\ calls' = 1
    /\ UNCHANGED <<raised, returned, storeVars, opVars, envVars, restVars>>

MockThrows ==
    /\ opKind = "mock"
    /\ \E s \in ErrorSamples :
          LET e == RaisedBy(s, calls)
          IN /\ Catch(e)
             /\ raised' = Append(raised, e)
    /\ UNCHANGED <<calls, returned, storeVars, opVars, envVars, restVars>>

MockReturns ==
    /\ opKind = "mock"
    /\ \E v \in MockResults :
          /\ Return(v)
          /\ returned' = Append(returned, v)
    /\ UNCHANGED <<calls, raised, storeVars, opVars, envVars, restVars>>

WakeMock ==
    /\ opKind = "mock"
    /\ Wake
    /\ calls' = calls + 1
    /\ UNCHANGED <<raised, returned, storeVars, opVars, envVars, restVars>>

\* The state after the module is loaded: the pool is built
\* (supabase.ts:55-64, 110), no call is in progress, the store is empty.
\* In the variant "pool" the warm-up (supabase.ts:467-474) has called
\* testConnection(), which has taken the first handle from the pool and
\* awaits its read (supabase.ts:453-454).  The variant "retry"
\* (useConnectionRecovery.ts:61-455) has one client and no pool: no handle
\* set, no health-check timer, no warm-up.
Init ==
    /\ variant \in {"pool", "retry"}
    /\ pc = "idle"
    /\ opKind = "none"
    /\ attempt = 0
    /\ lastError = Undefined
    /\ currentIndex = IF variant = "pool" THEN 1 % poolSize ELSE 0
    /\ client = NoHandle
    /\ delays = <<>>
    /\ outcome = <<>>
    /\ calls = 0
    /\ raised = <<>>
    /\ returned = <<>>
    /\ resumes = <<>>
    /\ resume_experiences = <<>>
    /\ resume_education = <<>>
    /\ resume_certifications = <<>>
    /\ now = 0
    /\ nextUuid = 0
    /\ arg = Null
    /\ local = Null
    /\ inflight = None
    /\ failed = None
    /\ result = Null
    /\ writes = 0
    /\ saved = Null
    /\ outages = 0
    /\ hit = FALSE
    /\ clients = IF variant = "pool" THEN [i \in 1..poolSize |-> i] ELSE <<>>
    /\ nextHandle = IF variant = "pool" THEN poolSize ELSE 0
    /\ healthCheckInterval = IF variant = "pool" THEN 1 ELSE 0
    /\ timers = IF variant = "pool" THEN {1} ELSE {}
    /\ probing = <<>>
    /\ acquired = IF variant = "pool" THEN <<clients[1]>> ELSE <<>>
    /\ stops = 0
    /\ lastCheck = "none"
    /\ warmup = IF variant = "pool" THEN clients[1] ELSE NoHandle
    /\ monitor = "none"
    /\ phase = "unmounted"
    /\ isConnected = "null"
    /\ isChecking = FALSE
    /\ timeouts = 0
    /\ interval = 0
    /\ listeners = {}
    /\ flights = <<>>
    /\ issued = 0
    /\ reads = 0
    /\ completed = <<>>
    /\ callbacks = <<>>
    /\ triggers = <<>>
    /\ clears = <<>>
    /\ running = <<>>

\* supabase.ts:454-458, 469-473: the read of the warm-up is answered or its
\* await throws; testConnection returns a boolean that the warm-up does not
\* read, and nothing else of the program changes
WarmupEnds ==
    /\ warmup # NoHandle
    /\ warmup' = NoHandle
    /\ UNCHANGED <<execVars, mockVars, storeVars, opVars, envVars, monVars, running,
                   clients, nextHandle, healthCheckInterval, timers, probing, acquired,
                   stops, lastCheck>>

NextExec == WarmupEnds \/ CallMock \/ MockThrows \/ MockReturns \/ WakeMock

SpecExec == Init /\ [][NextExec]_vars


---------------------------------------------------------------------------
(* Resume records.  Field values are numbers that differ from field to     *)
(* field and from entry to entry, so that a dropped, swapped or misplaced  *)
(* field or entry shows.                                                   *)

\* the longest child collection of a submitted resume
MaxLen == 2

\* how many save and delete operations one behaviour calls
MaxWrites == 2

\* the generated identifiers a caller asks for: the first MaxUuid
MaxUuid == 2

\* how many operations of one behaviour meet a failing backend call
MaxOutages == 1

NoId == <<>>                      \* resume.id absent (falsy); '' of an error result
GivenId == <<"given", 1>>         \* an identifier the caller supplies
uuidv4(n) == <<"uuid", n>>        \* the n-th generated identifier

ExperienceEntry(i) ==
    [company |-> 10 * i + 1, position |-> 10 * i + 2, startDate |-> 10 * i + 3,
     endDate |-> 10 * i + 4, description |-> 10 * i + 5]

EducationEntry(i) ==
    [institution |-> 10 * i + 1, degree |-> 10 * i + 2, fieldOfStudy |-> 10 * i + 3,
     startDate |-> 10 * i + 4, endDate |-> 10 * i + 5, description |-> 10 * i + 6]

CertificationEntry(i) ==
    [name |-> 10 * i + 1, issuer |-> 10 * i + 2, date |-> 10 * i + 3,
     description |-> 10 * i + 4]

\* A collection of n entries, the entry numbers descending: n, n-1, .., 1.
Entries(k, n) ==
    [j \in 1..n |-> CASE k = "experience" -> ExperienceEntry(n + 1 - j)
                      [] k = "education" -> EducationEntry(n + 1 - j)
                      [] k = "certifications" -> CertificationEntry(n + 1 - j)]

\* A resume: profile p, identifier id, and child collections of the lengths
\* ne, nd, nc.
Resume(id, p, ne, nd, nc) ==
    [id |-> id,
     name |-> 100 * p + 1, email |-> 100 * p + 2, phone |-> 100 * p + 3,
     location |-> 100 * p + 4, linkedin |-> 100 * p + 5, website |-> 100 * p + 6,
     summary |-> 100 * p + 7,
     skills |-> IF p = 1 THEN <<>> ELSE <<"tla", "ts">>,
     experience |-> Entries("experience", ne),
     education |-> Entries("education", nd),
     certifications |-> Entries("certifications", nc)]

\* The lengths of the three collections of the submitted resumes: all three
\* of one length, or three consecutive lengths (one of them may be empty).
LenTriples ==
    { <<n, n, n>> : n \in 0..MaxLen } \cup
    { <<n, (n + 1) % (MaxLen + 1), (n + 2) % (MaxLen + 1)>> : n \in 0..MaxLen }

\* The resumes a caller submits: under the given identifier every triple
\* of lengths, and one resume without identifier.
Resumes ==
    { Resume(GivenId, 1 + (t[1] % 2), t[1], t[2], t[3]) : t \in LenTriples }
        \cup { Resume(NoId, 2, 1, 0, 1) }

\* The resumes submitted to a backend that may fail.
FewResumes ==
    { Resume(GivenId, 1, 1, 1, 1), Resume(GivenId, 2, 0, 2, 0) }

\* The identifiers a caller asks for.
Ids == {GivenId} \cup { uuidv4(n) : n \in 1..MaxUuid }

Kinds == <<"experience", "education", "certifications">>

---------------------------------------------------------------------------
(* The backend: four tables and the table operations of the client.  The   *)
(* store is external; its operations follow section 6 of the design, the   *)
(* cascade on delete its section 3.                                        *)

Table(k) ==
    CASE k = "experience" -> resume_experiences
      [] k = "education" -> resume_education
      [] k = "certifications" -> resume_certifications

\* .upsert(row, { onConflict: 'id' })
Upsert(tbl, row) ==
    IF \E i \in DOMAIN tbl : tbl[i].id = row.id
    THEN [i \in DOMAIN tbl |-> IF tbl[i].id = row.id THEN row ELSE tbl[i]]
    ELSE Append(tbl, row)

\* .delete().eq('resume_id', id)
DeleteByResume(tbl, id) ==
    LET keep(r) == r.resume_id # id IN SelectSeq(tbl, keep)

\* .delete().eq('id', id)
DeleteById(tbl, id) ==
    LET keep(r) == r.id # id IN SelectSeq(tbl, keep)

\* .insert(rows)
Insert(tbl, rows) == tbl \o rows

Bijections(n) ==
    { f \in [1..n -> 1..n] : \A i, j \in 1..n : f[i] = f[j] => i = j }

\* .order(column, { ascending }): the rows in every order that is sorted by
\* the column; rows of equal value come in any order
Ordered(rows, column, ascending) ==
    { [i \in DOMAIN rows |-> rows[f[i]]] : f \in
        { g \in Bijections(Len(rows)) :
            \A i, j \in DOMAIN rows :
                i < j => IF ascending
                         THEN rows[g[i]][column] <= rows[g[j]][column]
                         ELSE rows[g[i]][column] >= rows[g[j]][column] } }

SelectByResume_unordered(tbl, id) ==
    LET mine(r) == r.resume_id = id
    IN { SelectSeq(tbl, mine) }

\* .select('*').eq('resume_id', id).order('order_index', { ascending: true })
SelectByResume(tbl, id) ==
    LET mine(r) == r.resume_id = id
    IN Ordered(SelectSeq(tbl, mine), "order_index", TRUE)

\* .select('*').order('created_at', { ascending: false })
SelectAll(tbl) == Ordered(tbl, "created_at", FALSE)

\* the error value of .single() when no row matches
NoRows ==
    [message |-> <<"n", "o", " ", "r", "o", "w", "s", " ", "r", "e", "t",
                   "u", "r", "n", "e", "d">>,
     isError |-> FALSE]

\* .select('*').eq('id', id).single(): the (data, error) pairs it may answer
SelectSingle(tbl, id) ==
    LET mine(r) == r.id = id
        found == SelectSeq(tbl, mine)
    IN IF Len(found) = 1
       THEN { [data |-> found[1], error |-> Null] }
       ELSE { [data |-> Null, error |-> NoRows], [data |-> Null, error |-> Null] }

\* the error value a table operation answers when the backend refuses it
BackendErrors ==
    { [message |-> <<"d", "u", "p", "l", "i", "c", "a", "t", "e", " ", "k",
                     "e", "y">>,
       isError |-> FALSE] }

\* the exception a client call throws when the request does not get through
ClientExceptions ==
    { [message |-> <<"F", "a", "i", "l", "e", "d", " ", "t", "o", " ", "f",
                     "e", "t", "c", "h">>,
       isError |-> TRUE] }

---------------------------------------------------------------------------
(* Repository operations.  `inflight` names the backend call the attempt   *)
(* awaits; an action is the completion of that call and the code up to     *)
(* the next await.                                                         *)

Idle == pc \in {"idle", "returned", "threw"}

\* The result/error pair of an operation whose executor call threw e:
\* supabase.ts:262-265, 346-349, 425-428, 444-447;
\* useConnectionRecovery.ts:279-282, 359-362, 434-437, 451-454
ErrorResult(kind, e) ==
    CASE kind = "save" -> [id |-> NoId, error |-> e]
      [] kind = "get" -> [resume |-> Null, error |-> e]
      [] kind = "getAll" -> [resumes |-> <<>>, error |-> e]
      [] kind = "delete" -> [error |-> e]

\* The result/error pair of an operation whose executor call returned v:
\* supabase.ts:261, 345, 424, 443; useConnectionRecovery.ts:278, 358, 433, 450
OkResult(kind, v) ==
    CASE kind = "save" -> [id |-> v, error |-> Null]
      [] kind = "get" -> [resume |-> v, error |-> Null]
      [] kind = "getAll" -> [resumes |-> v, error |-> Null]
      [] kind = "delete" -> [error |-> Null]

\* supabase.ts:148-162: the locals of a saveResume attempt
SaveLocals ==
    LET resumeId == IF arg'.id # NoId THEN arg'.id ELSE uuidv4(nextUuid + 1)
    IN [resumeId |-> resumeId,
        resumeData |-> [id |-> resumeId, name |-> arg'.name, email |-> arg'.email,
                        phone |-> arg'.phone, location |-> arg'.location,
                        linkedin |-> arg'.linkedin, website |-> arg'.website,
                        summary |-> arg'.summary, skills |-> arg'.skills,
                        created_at |-> now],
        childData |-> <<>>]

\* The operation is invoked for an attempt and runs to its first await:
\* saveResume supabase.ts:148-167, getResume 272-276, getAllResumes 356-359,
\* deleteResume 435-438.  arg' is the argument of the operation.
OpStart ==
    /\ failed' = None
    /\ IF opKind' = "save"
       THEN /\ local' = SaveLocals
            /\ nextUuid' = IF arg'.id # NoId THEN nextUuid ELSE nextUuid + 1
            /\ inflight' = <<"upsert", 0>>
       ELSE /\ local' = Null
            /\ nextUuid' = nextUuid
            /\ inflight' = CASE opKind' = "get" -> <<"selectResume", 0>>
                             [] opKind' = "getAll" -> <<"selectResumes", 0>>
                             [] opKind' = "delete" -> <<"deleteResume", 0>>

\* The call of a repository operation: the executor is called with the
\* operation, which starts its first attempt.
CallOp(kind, a) ==
    /\ Idle
    /\ arg' = a
    /\ Begin(kind)
    /\ IF pc' = "op"
       THEN /\ OpStart
            /\ result' = Null
       ELSE /\ result' = ErrorResult(kind, outcome'[1].val)
            /\ UNCHANGED <<local, nextUuid, inflight, failed>>
    /\ hit' = FALSE
    /\ UNCHANGED <<restVars, mockVars, storeVars, now, outages, saved>>

\* saveResume(r) is called, r one of rs
Save(rs) ==
    /\ writes < MaxWrites
    /\ writes' = writes + 1
    /\ \E r \in rs :
          /\ CallOp("save", r)

CallSave == Save(Resumes)

CallSaveFew == Save(FewResumes)

CallGet ==
    /\ writes' = writes
    /\ \E id \in Ids : CallOp("get", id)

CallDelete ==
    /\ writes < MaxWrites
    /\ writes' = writes + 1
    /\ \E id \in Ids : CallOp("delete", id)

\* The backoff timer of a repository operation fires: the next attempt.
WakeOp ==
    /\ opKind # "mock"
    /\ Wake
    /\ arg' = arg
    /\ IF pc' = "op"
       THEN /\ OpStart
            /\ result' = result
       ELSE /\ result' = ErrorResult(opKind, outcome'[1].val)
            /\ UNCHANGED <<local, nextUuid, inflight, failed>>
    /\ UNCHANGED <<restVars, mockVars, storeVars, now, writes, saved, envVars>>

Throw_noThrow(e) ==
    /\ failed' = inflight
    /\ UNCHANGED <<restVars, execVars, mockVars, now, nextUuid, arg, local, inflight, result,
                   writes, saved>>

\* The operation throws e in the current attempt: the executor catches it,
\* and the operation's own catch makes the result when the executor rethrows.
Throw(e) ==
    /\ Catch(e)
    /\ failed' = inflight
    /\ inflight' = None
    /\ local' = Null
    /\ result' = IF pc' = "threw" THEN ErrorResult(opKind, outcome'[1].val) ELSE result
    /\ UNCHANGED <<restVars, mockVars, now, nextUuid, arg, writes, saved>>

\* The operation returns in the current attempt, v the value its code has
\* computed.  In the variant "pool" the operation returns v and the function
\* around the executor call makes the pair (supabase.ts:258-261, 342-345,
\* 421-424, 443); in the variant "retry" the operation itself returns the
\* pair, which is what the executor call ends with
\* (useConnectionRecovery.ts:278, 358, 433, 450).  f is the call of this
\* attempt that failed (None: none).
Ends(v, f) ==
    /\ Return(IF variant = "retry" THEN OkResult(opKind, v) ELSE v)
    /\ inflight' = None
    /\ local' = Null
    /\ failed' = f
    /\ result' = OkResult(opKind, v)
    /\ saved' = CASE opKind = "save" -> [id |-> v, resume |-> arg]
                  [] opKind = "delete" /\ saved # Null /\ saved.id = arg -> Null
                  [] OTHER -> saved
    /\ UNCHANGED <<restVars, mockVars, now, nextUuid, arg, writes>>

\* The operation returns v, no call of the attempt having failed in this step.
Finish(v) == Ends(v, failed)

\* The operation issues its next backend call; f is the call of this attempt
\* that failed (None: none).
Issues(call, locals, f) ==
    /\ inflight' = call
    /\ local' = locals
    /\ failed' = f
    /\ UNCHANGED <<restVars, execVars, mockVars, now, nextUuid, arg, result, writes, saved>>

\* The operation issues its next backend call, no call of the attempt having
\* failed in this step.
Await(call, locals) == Issues(call, locals, failed)

---------------------------------------------------------------------------
(* saveResume: supabase.ts:145-266, useConnectionRecovery.ts:166-283 *)

\* resume.experience, resume.education, resume.certifications
CollectionOf(resume, k) ==
    CASE k = "experience" -> resume.experience
      [] k = "education" -> resume.education
      [] k = "certifications" -> resume.certifications

Collection(k) == CollectionOf(arg, k)

\* supabase.ts:182-191, 211-221, 241-249: the rows made of the collection of
\* kind k of the resume, for the identifier resumeId, n identifiers having
\* been generated before: the map calls uuidv4() once for every row, in the
\* order of the entries
RowsOf(k, resume, resumeId, n) ==
    CASE k = "experience" ->
            [index \in DOMAIN resume.experience |->
                LET exp == resume.experience[index]
                IN [id |-> uuidv4(n + index), resume_id |-> resumeId,
                    company |-> exp.company,
                    position |-> exp.position, start_date |-> exp.startDate,
                    end_date |-> exp.endDate, description |-> exp.description,
                    order_index |-> index - 1]]
      [] k = "education" ->
            [index \in DOMAIN resume.education |->
                LET edu == resume.education[index]
                IN [id |-> uuidv4(n + index), resume_id |-> resumeId,
                    institution |-> edu.institution,
                    degree |-> edu.degree, field_of_study |-> edu.fieldOfStudy,
                    start_date |-> edu.startDate, end_date |-> edu.endDate,
                    description |-> edu.description, order_index |-> index - 1]]
      [] k = "certifications" ->
            [index \in DOMAIN resume.certifications |->
                LET cert == resume.certifications[index]
                IN [id |-> uuidv4(n + index), resume_id |-> resumeId,
                    name |-> cert.name,
                    issuer |-> cert.issuer, date |-> cert.date,
                    description |-> cert.description, order_index |-> index - 1]]

\* the rows of the collection of kind k of the save in progress
ChildRows(k) == RowsOf(k, arg, local.resumeId, nextUuid)

\* supabase.ts:182-195, 211-225, 241-253: the rows of the i-th kind are made
\* (experienceData, educationData, certificationData: childData), every row
\* with a new identifier, and their insert is issued
AwaitInsert(i) ==
    /\ inflight' = <<"insert", i>>
    /\ local' = [local EXCEPT !.childData = ChildRows(Kinds[i])]
    /\ nextUuid' = nextUuid + Len(Collection(Kinds[i]))
    /\ UNCHANGED <<restVars, execVars, mockVars, now, arg, failed, result, writes, saved>>

\* supabase.ts:172, 201, 231: the condition of the block of kind k
HandlesKindOf(resume, k) == Len(CollectionOf(resume, k)) > 0

HandlesKind(k) == HandlesKindOf(arg, k)

\* The first kind after the i-th whose block runs (0: none).
NextKindOf(resume, i) ==
    IF \E j \in (i + 1)..Len(Kinds) : HandlesKindOf(resume, Kinds[j])
    THEN CHOOSE j \in (i + 1)..Len(Kinds) :
            /\ HandlesKindOf(resume, Kinds[j])
            /\ \A h \in (i + 1)..(j - 1) : ~HandlesKindOf(resume, Kinds[h])
    ELSE 0

NextKind(i) == NextKindOf(arg, i)

SaveContinue_insertFirst(i) ==
    IF NextKind(i) = 0
    THEN Finish(local.resumeId)
    ELSE AwaitInsert(NextKind(i))

\* saveResume after the block of the i-th kind: the next block that runs
\* issues its delete; with none left saveResume returns resumeId.
SaveContinue(i) ==
    IF NextKind(i) = 0
    THEN Finish(local.resumeId)
    ELSE Await(<<"delete", NextKind(i)>>, local)

SetTable(k, rows) ==
    /\ resume_experiences' = IF k = "experience" THEN rows ELSE resume_experiences
    /\ resume_education' = IF k = "education" THEN rows ELSE resume_education
    /\ resume_certifications' =
          IF k = "certifications" THEN rows ELSE resume_certifications
    /\ resumes' = resumes

\* supabase.ts:165-172: the upsert of the parent row is answered without error
UpsertDone ==
    /\ UNCHANGED envVars
    /\ pc = "op" /\ opKind = "save" /\ inflight = <<"upsert", 0>>
    /\ resumes' = Upsert(resumes, local.resumeData)
    /\ UNCHANGED <<resume_experiences, resume_education, resume_certifications>>
    /\ SaveContinue(0)

\* supabase.ts:174-195, 203-225, 233-253: the delete of the rows of one kind
\* is answered without error; the new rows are made and their insert is issued
DeleteDone ==
    /\ UNCHANGED envVars
    /\ pc = "op" /\ opKind = "save"
    /\ \E i \in DOMAIN Kinds :
          /\ inflight = <<"delete", i>>
          /\ SetTable(Kinds[i], DeleteByResume(Table(Kinds[i]), local.resumeId))
          /\ AwaitInsert(i)

\* supabase.ts:193-201, 223-231, 251-258: the insert of the rows of one kind
\* is answered without error; the next block, or return resumeId
InsertDone ==
    /\ UNCHANGED envVars
    /\ pc = "op" /\ opKind = "save"
    /\ \E i \in DOMAIN Kinds :
          /\ inflight = <<"insert", i>>
          /\ SetTable(Kinds[i], Insert(Table(Kinds[i]), local.childData))
          /\ SaveContinue(i)

---------------------------------------------------------------------------
(* getResume: supabase.ts:268-350, useConnectionRecovery.ts:285-363 *)

\* supabase.ts:319-339, 397-417: the entries made of the fetched rows of kind k
FromRows(k, data) ==
    CASE k = "experience" ->
            [i \in DOMAIN data |->
                LET exp == data[i]
                IN [company |-> exp.company, position |-> exp.position,
                    startDate |-> exp.start_date, endDate |-> exp.end_date,
                    description |-> exp.description]]
      [] k = "education" ->
            [i \in DOMAIN data |->
                LET edu == data[i]
                IN [institution |-> edu.institution, degree |-> edu.degree,
                    fieldOfStudy |-> edu.field_of_study, startDate |-> edu.start_date,
                    endDate |-> edu.end_date, description |-> edu.description]]
      [] k = "certifications" ->
            [i \in DOMAIN data |->
                LET cert == data[i]
                IN [name |-> cert.name, issuer |-> cert.issuer, date |-> cert.date,
                    description |-> cert.description]]

\* What a fetch gave: its rows, or null.
Data(rows) == [rows |-> rows]

\* data || []
OrEmpty(data) == IF data = Null THEN <<>> ELSE data.rows

\* supabase.ts:309-340, 387-418: the resume made of a parent row and the
\* fetched rows of the three kinds (skills || [] is skills: no stored row
\* has null skills)
Construct(resumeData, fetched) ==
    [id |-> resumeData.id, name |-> resumeData.name, email |-> resumeData.email,
     phone |-> resumeData.phone, location |-> resumeData.location,
     linkedin |-> resumeData.linkedin, website |-> resumeData.website,
     summary |-> resumeData.summary, skills |-> resumeData.skills,
     experience |-> FromRows("experience", OrEmpty(fetched[1])),
     education |-> FromRows("education", OrEmpty(fetched[2])),
     certifications |-> FromRows("certifications", OrEmpty(fetched[3]))]

\* new Error('Resume not found'), supabase.ts:279
ResumeNotFound ==
    [message |-> <<"R", "e", "s", "u", "m", "e", " ", "n", "o", "t", " ",
                   "f", "o", "u", "n", "d">>,
     isError |-> TRUE]

SelectResumeDone_ignoreError ==
    /\ UNCHANGED envVars
    /\ pc = "op" /\ opKind = "get" /\ inflight = <<"selectResume", 0>>
    /\ UNCHANGED storeVars
    /\ \E answer \in SelectSingle(resumes, arg) :
          IF answer.data = Null
          THEN Finish(Null)
          ELSE Await(<<"select", 1>>, [resumeData |-> answer.data, fetched |-> <<>>])

\* supabase.ts:272-286: the parent row fetch is answered (not with an error
\* of the transport); without a row getResume throws
SelectResumeDone ==
    /\ UNCHANGED envVars
    /\ pc = "op" /\ opKind = "get" /\ inflight = <<"selectResume", 0>>
    /\ UNCHANGED storeVars
    /\ \E answer \in SelectSingle(resumes, arg) :
          IF answer.error # Null
          THEN Throw(RaisedBy(answer.error, attempt + 1))
          ELSE IF answer.data = Null
               THEN Throw(RaisedBy(ResumeNotFound, attempt + 1))
               ELSE Await(<<"select", 1>>, [resumeData |-> answer.data, fetched |-> <<>>])

\* supabase.ts:282-342: the fetch of the rows of one kind is answered without
\* error; the next fetch is issued, or the resume is made and returned
SelectChildrenDone ==
    /\ UNCHANGED envVars
    /\ pc = "op" /\ opKind = "get"
    /\ UNCHANGED storeVars
    /\ \E i \in DOMAIN Kinds :
          /\ inflight = <<"select", i>>
          /\ \E data \in SelectByResume(Table(Kinds[i]), arg) :
                LET fetched == Append(local.fetched, Data(data))
                IN IF i < Len(Kinds)
                   THEN Await(<<"select", i + 1>>, [local EXCEPT !.fetched = fetched])
                   ELSE Finish(Construct(local.resumeData, fetched))

---------------------------------------------------------------------------
(* deleteResume: supabase.ts:431-448, useConnectionRecovery.ts:440-455 *)

\* the cascade of the store: with a parent row its child rows go (the
\* schema is not part of the sources; section 3 of the design states it)
Cascade(tbl, id) == DeleteByResume(tbl, id)

\* supabase.ts:434-438: .delete().eq('id', id) on resumes ("cascade delete
\* should handle related records")
DeleteCascade(id) ==
    /\ resumes' = DeleteById(resumes, id)
    /\ resume_experiences' = Cascade(resume_experiences, id)
    /\ resume_education' = Cascade(resume_education, id)
    /\ resume_certifications' = Cascade(resume_certifications, id)

\* supabase.ts:435-443: the delete of the parent row is answered without error
DeleteResumeDone ==
    /\ UNCHANGED envVars
    /\ pc = "op" /\ opKind = "delete" /\ inflight = <<"deleteResume", 0>>
    /\ DeleteCascade(arg)
    /\ Finish(Null)

---------------------------------------------------------------------------
(* getAllResumes: supabase.ts:352-429, useConnectionRecovery.ts:365-438.   *)
(* After the parent rows are fetched one task per row runs its three       *)
(* fetches in sequence, the tasks concurrently (Promise.all); a task's     *)
(* `fetched` holds the data of the fetches it has completed.               *)

AllFetched(tasks) == \A i \in DOMAIN tasks : Len(tasks[i]) = Len(Kinds)

\* supabase.ts:356-364: the parent rows are answered without error; with
\* no row Promise.all([]) resolves at once
SelectResumesDone ==
    /\ UNCHANGED envVars
    /\ pc = "op" /\ opKind = "getAll" /\ inflight = <<"selectResumes", 0>>
    /\ UNCHANGED storeVars
    /\ \E resumesData \in SelectAll(resumes) :
          IF resumesData = <<>>
          THEN Finish(<<>>)
          ELSE Await(<<"children", 0>>,
                     [resumesData |-> resumesData,
                      tasks |-> [i \in DOMAIN resumesData |-> <<>>]])

\* supabase.ts:364-421: `data` is what a fetch of task i gave; the task goes
\* on, and when every task has ended getAllResumes returns the resumes
ChildFetched(i, data) ==
    LET tasks == [local.tasks EXCEPT ![i] = Append(@, data)]
        f == IF data = Null THEN inflight ELSE failed
    IN IF AllFetched(tasks)
       THEN Ends([j \in DOMAIN tasks |-> Construct(local.resumesData[j], tasks[j])], f)
       ELSE Issues(<<"children", 0>>, [local EXCEPT !.tasks = tasks], f)

\* the fetch in flight of task i is answered without error
ChildFetchDone ==
    /\ UNCHANGED envVars
    /\ pc = "op" /\ opKind = "getAll" /\ inflight = <<"children", 0>>
    /\ UNCHANGED storeVars
    /\ \E i \in DOMAIN local.tasks :
          /\ Len(local.tasks[i]) < Len(Kinds)
          /\ \E data \in SelectByResume(Table(Kinds[Len(local.tasks[i]) + 1]),
                                        local.resumesData[i].id) :
                ChildFetched(i, Data(data))

CallGetAll ==
    /\ writes' = writes
    /\ CallOp("getAll", Null)

---------------------------------------------------------------------------
(* Failures of backend calls.  A failed call leaves the store as it was.   *)

\* A backend call of the operation in progress fails.
Fails ==
    /\ hit \/ outages < MaxOutages
    /\ hit' = TRUE
    /\ outages' = IF hit THEN outages ELSE outages + 1

\* supabase.ts:169, 179, 197, 208, 227, 238, 255, 278, 288, 297, 306, 361,
\* 440: the call in flight answers an error value, which the operation throws
CallErrors ==
    /\ pc = "op" /\ opKind # "mock" /\ inflight # <<"children", 0>>
    /\ Fails
    /\ UNCHANGED storeVars
    /\ \E e \in BackendErrors : Throw(RaisedBy(e, attempt + 1))

\* the client call in flight throws
CallThrows ==
    /\ pc = "op" /\ opKind # "mock"
    /\ Fails
    /\ UNCHANGED storeVars
    /\ \E e \in ClientExceptions : Throw(RaisedBy(e, attempt + 1))

\* supabase.ts:366-384: a fetch of task i answers an error value; its error
\* is not read and its data is null
ChildFetchErrors ==
    /\ pc = "op" /\ opKind = "getAll" /\ inflight = <<"children", 0>>
    /\ Fails
    /\ UNCHANGED storeVars
    /\ \E i \in DOMAIN local.tasks :
          /\ Len(local.tasks[i]) < Len(Kinds)
          /\ ChildFetched(i, Null)

---------------------------------------------------------------------------
(* The repository on a backend that answers every call without error. *)

NextRepo ==
    \/ WarmupEnds
    \/ CallSave \/ UpsertDone \/ DeleteDone \/ InsertDone
    \/ CallGet \/ SelectResumeDone \/ SelectChildrenDone
    \/ CallDelete \/ DeleteResumeDone
    \/ CallGetAll \/ SelectResumesDone \/ ChildFetchDone
    \/ WakeOp

SpecRepo == Init /\ [][NextRepo]_vars

---------------------------------------------------------------------------
(* The repository on a backend whose calls may fail. *)

NextFaults ==
    \/ WarmupEnds
    \/ CallSaveFew \/ UpsertDone \/ DeleteDone \/ InsertDone
    \/ CallGet \/ SelectResumeDone \/ SelectChildrenDone
    \/ CallDelete \/ DeleteResumeDone
    \/ CallGetAll \/ SelectResumesDone \/ ChildFetchDone
    \/ WakeOp
    \/ CallErrors \/ CallThrows \/ ChildFetchErrors

SpecFaults == Init /\ [][NextFaults]_vars

---------------------------------------------------------------------------
(* The repository with a clock that advances between the saves. *)

\* how many saves are called
MaxSaves == 3

\* how far the clock advances
MaxClock == 2

\* The resumes submitted: one under the given identifier, one without.
OrderResumes == { Resume(GivenId, 1, 1, 0, 0), Resume(NoId, 2, 0, 0, 0) }

\* Time passes: a later new Date() (supabase.ts:161,
\* useConnectionRecovery.ts:181) reads a later time.
ClockTick ==
    /\ now < MaxClock
    /\ now' = now + 1
    /\ UNCHANGED <<execVars, mockVars, storeVars, nextUuid, arg, local, inflight, failed,
                   result, writes, saved, envVars, restVars>>

\* saveResume(r) is called, r one of OrderResumes
CallSaveOrdered ==
    /\ writes < MaxSaves
    /\ writes' = writes + 1
    /\ \E r \in OrderResumes :
          /\ CallOp("save", r)

NextOrder ==
    \/ WarmupEnds
    \/ ClockTick
    \/ CallSaveOrdered \/ UpsertDone \/ DeleteDone \/ InsertDone
    \/ CallGetAll \/ SelectResumesDone \/ ChildFetchDone

SpecOrder == Init /\ [][NextOrder]_vars

---------------------------------------------------------------------------
(* The repository on a store that keeps its rows in any physical order. *)

\* The resumes submitted: one under the given identifier, one without.
StoreResumes == { Resume(GivenId, 1, 2, 1, 0), Resume(NoId, 2, 1, 0, 1) }

\* saveResume(r) is called, r one of StoreResumes
CallSaveStore == Save(StoreResumes)

\* the rows in every physical order
PhysicalOrders(rows) ==
    { [i \in DOMAIN rows |-> rows[f[i]]] : f \in Bijections(Len(rows)) }

\* The store moves the rows of a child table: a table has no order of its
\* own, a select without .order() may return the rows in any order.
StoreReorders ==
    /\ \E i \in DOMAIN Kinds : \E rows \in PhysicalOrders(Table(Kinds[i])) :
          /\ rows # Table(Kinds[i])
          /\ SetTable(Kinds[i], rows)
    /\ UNCHANGED <<execVars, mockVars, opVars, envVars, restVars>>

NextStore ==
    \/ WarmupEnds
    \/ CallSaveStore \/ UpsertDone \/ DeleteDone \/ InsertDone
    \/ StoreReorders
    \/ CallGet \/ SelectResumeDone \/ SelectChildrenDone
    \/ WakeOp

SpecStore == Init /\ [][NextStore]_vars

---------------------------------------------------------------------------
(* Saves of a resume without identifier on a backend whose calls may fail. *)

\* The resumes submitted: they have no identifier.
IdlessResumes == { Resume(NoId, 2, 1, 0, 1), Resume(NoId, 1, 0, 2, 0) }

\* saveResume(r) is called, r without identifier
CallSaveIdless == Save(IdlessResumes)

NextIdless ==
    \/ WarmupEnds
    \/ CallSaveIdless \/ UpsertDone \/ DeleteDone \/ InsertDone
    \/ WakeOp
    \/ CallErrors \/ CallThrows

SpecIdless == Init /\ [][NextIdless]_vars

---------------------------------------------------------------------------
(* Calls of saveResume that run side by side: a caller need not await one  *)
(* save before it calls the next.  Each is an attempt of the executor on a *)
(* backend that answers every call without error; its steps interleave     *)
(* with the steps of the others at the awaits.                             *)

\* how many saves run side by side
MaxTasks == 2

\* The resumes submitted, under one identifier, every collection non-empty.
ConcurrentResumes == { Resume(GivenId, 1, 1, 1, 1), Resume(GivenId, 2, 2, 2, 2) }

\* Everything but the store, the running, the identifiers generated, the
\* round-robin index and the handles taken stays as it is.
TaskFrame ==
    UNCHANGED <<variant, pc, opKind, attempt, lastError, client, delays, outcome,
                mockVars, now, arg, local, inflight, failed, result, writes, saved,
                envVars, poolVars, monVars>>

\* supabase.ts:145-167, 123-126: saveResume is called; the executor takes a
\* handle, the operation resolves the identifier, makes the parent row and
\* issues its upsert
TaskStart ==
    /\ Len(running) < MaxTasks
    /\ \E r \in ConcurrentResumes :
          LET resumeId == IF r.id # NoId THEN r.id ELSE uuidv4(nextUuid + 1)
          IN /\ running' = Append(running,
                    [resume |-> r, resumeId |-> resumeId,
                     resumeData |-> [id |-> resumeId, name |-> r.name, email |-> r.email,
                                     phone |-> r.phone, location |-> r.location,
                                     linkedin |-> r.linkedin, website |-> r.website,
                                     summary |-> r.summary, skills |-> r.skills,
                                     created_at |-> now],
                     client |-> IF variant = "pool"
                                THEN clientAt(clients, currentIndex) ELSE NoHandle,
                     childData |-> <<>>,
                     inflight |-> <<"upsert", 0>>,
                     result |-> Null])
             /\ nextUuid' = IF r.id # NoId THEN nextUuid ELSE nextUuid + 1
    /\ IF variant = "pool" THEN Acquire ELSE UNCHANGED <<currentIndex, acquired>>
    /\ UNCHANGED storeVars
    /\ TaskFrame

\* saveResume of task t after the block of the i-th kind: the next block that
\* runs issues its delete; with none left it returns resumeId and saveResume
\* returns { id, error: null } (supabase.ts:258-261)
TaskContinue(t, i) ==
    LET next == NextKindOf(running[t].resume, i)
    IN running' = [running EXCEPT ![t] =
                    IF next = 0
                    THEN [@ EXCEPT !.inflight = None,
                                   !.result = OkResult("save", running[t].resumeId)]
                    ELSE [@ EXCEPT !.inflight = <<"delete", next>>]]

\* supabase.ts:164-169: the upsert of task t is answered without error
TaskUpsertDone ==
    /\ \E t \in DOMAIN running :
          /\ running[t].inflight = <<"upsert", 0>>
          /\ resumes' = Upsert(resumes, running[t].resumeData)
          /\ TaskContinue(t, 0)
    /\ UNCHANGED <<resume_experiences, resume_education, resume_certifications,
                   nextUuid, currentIndex, acquired>>
    /\ TaskFrame

\* supabase.ts:174-195, 203-225, 233-253: the delete of task t is answered
\* without error; its new rows are made and their insert is issued
TaskDeleteDone ==
    /\ \E t \in DOMAIN running : \E i \in DOMAIN Kinds :
          /\ running[t].inflight = <<"delete", i>>
          /\ SetTable(Kinds[i], DeleteByResume(Table(Kinds[i]), running[t].resumeId))
          /\ running' = [running EXCEPT
                            ![t].childData = RowsOf(Kinds[i], running[t].resume,
                                                    running[t].resumeId, nextUuid),
                            ![t].inflight = <<"insert", i>>]
          /\ nextUuid' = nextUuid + Len(CollectionOf(running[t].resume, Kinds[i]))
    /\ UNCHANGED <<currentIndex, acquired>>
    /\ TaskFrame

\* supabase.ts:193-201, 223-231, 251-258: the insert of task t is answered
\* without error; the next block, or return
TaskInsertDone ==
    /\ \E t \in DOMAIN running : \E i \in DOMAIN Kinds :
          /\ running[t].inflight = <<"insert", i>>
          /\ SetTable(Kinds[i], Insert(Table(Kinds[i]), running[t].childData))
          /\ TaskContinue(t, i)
    /\ UNCHANGED <<nextUuid, currentIndex, acquired>>
    /\ TaskFrame

NextConcurrent == WarmupEnds \/ TaskStart \/ TaskUpsertDone \/ TaskDeleteDone \/ TaskInsertDone

SpecConcurrent == Init /\ [][NextConcurrent]_vars

Range(s) == { s[i] : i \in DOMAIN s }

Last(s) == s[Len(s)]

---------------------------------------------------------------------------
(* The handle pool: SupabaseConnectionPool, supabase.ts:55-107, and its    *)
(* health check.  A handle is the number createSupabaseClient() made it    *)
(* as.  Only the variant "pool" has a pool.                                *)

\* how many times the pool is rebuilt
MaxRebuilds == 1

\* how many health-check reads are in flight at once
MaxInflight == 2

\* how many times destroy() is called
MaxStops == 2

\* supabase.ts:66-71: poolSize new handles are pushed onto the array cs,
\* `made` handles having been made before
initializePool(cs, made) == cs \o [i \in 1..poolSize |-> made + i]

\* Everything but the pool and the round-robin index stays as it is.
PoolFrame ==
    UNCHANGED <<variant, pc, opKind, attempt, lastError, client, delays, outcome,
                mockVars, storeVars, opVars, envVars, monVars, running>>

\* supabase.ts:113, 125, 453: a caller (an attempt of the executor,
\* testConnection) takes a handle from the pool
CallGetClient ==
    /\ variant = "pool"
    /\ Acquire
    /\ UNCHANGED <<clients, nextHandle, healthCheckInterval, timers, probing, stops,
                   lastCheck, warmup>>
    /\ PoolFrame

\* supabase.ts:75-83: the interval timer fires; performHealthCheck takes a
\* handle and issues its read
HealthCheckTick ==
    /\ variant = "pool"
    /\ healthCheckInterval \in timers
    /\ Len(probing) < MaxInflight
    /\ Acquire
    /\ probing' = Append(probing, clientAt(clients, currentIndex))
    /\ UNCHANGED <<clients, nextHandle, healthCheckInterval, timers, stops, lastCheck,
                   warmup>>
    /\ PoolFrame

Remove(q, i) == [j \in 1..(Len(q) - 1) |-> IF j < i THEN q[j] ELSE q[j + 1]]

\* supabase.ts:83: a health-check read is answered, with rows ("ok") or with
\* an error value ("error"); the answer is not read
HealthCheckAnswers ==
    /\ variant = "pool"
    /\ \E i \in DOMAIN probing : probing' = Remove(probing, i)
    /\ \E answer \in {"ok", "error"} : lastCheck' = answer
    /\ UNCHANGED <<clients, nextHandle, currentIndex, healthCheckInterval, timers,
                   acquired, stops, warmup>>
    /\ PoolFrame

refreshPool_append ==
    /\ clients' = initializePool(clients, nextHandle)
    /\ nextHandle' = nextHandle + poolSize
    /\ acquired' = <<>>

\* supabase.ts:91-94: refreshPool() empties the array and fills it anew
refreshPool ==
    /\ clients' = initializePool(<<>>, nextHandle)
    /\ nextHandle' = nextHandle + poolSize
    /\ acquired' = <<>>

\* supabase.ts:84-88: the await of a health-check read throws; the pool is
\* rebuilt
HealthCheckThrows ==
    /\ variant = "pool"
    /\ nextHandle < poolSize * (MaxRebuilds + 1)
    /\ \E i \in DOMAIN probing : probing' = Remove(probing, i)
    /\ lastCheck' = "threw"
    /\ refreshPool
    /\ UNCHANGED <<currentIndex, healthCheckInterval, timers, stops, warmup>>
    /\ PoolFrame

destroy_noClear ==
    /\ timers' = timers
    /\ UNCHANGED healthCheckInterval

\* supabase.ts:102-106: destroy() clears the interval timer if one was set
destroy ==
    /\ timers' = IF healthCheckInterval # 0
                 THEN timers \ {healthCheckInterval}
                 ELSE timers
    /\ UNCHANGED healthCheckInterval

\* supabase.ts:462-464: cleanup() calls connectionPool.destroy()
CallCleanup ==
    /\ variant = "pool"
    /\ stops < MaxStops
    /\ stops' = stops + 1
    /\ destroy
    /\ UNCHANGED <<clients, nextHandle, currentIndex, probing, acquired, lastCheck,
                   warmup>>
    /\ PoolFrame

NextPool ==
    \/ WarmupEnds
    \/ CallGetClient \/ HealthCheckTick \/ HealthCheckAnswers \/ HealthCheckThrows
    \/ CallCleanup

SpecPool == Init /\ [][NextPool]_vars

---------------------------------------------------------------------------
(* The reachability monitors.  Four are in the sources:                    *)
(*   "statusA": the component ConnectionStatus, ConnectionStatus.tsx:5-56  *)
(*   "statusB": the component ConnectionStatus, ConnectionStatus.tsx:63-119*)
(*   "hookA"  : useConnectionRecovery, useConnectionRecovery.ts:9-60       *)
(*   "hookB"  : useConnectionRecovery, ConnectionStatus.tsx:131-189        *)
(* A probe is a call of testConnection (supabase.ts:451-459,               *)
(* useConnectionRecovery.ts:155-163).  The hooks are given their callbacks.*)

\* how many probes a monitor starts
MaxProbes == 3

\* how many probes are in flight at once
MaxFlights == 2

\* how many times the effect of a mounted hook runs again
MaxReruns == 1

Monitors == {"statusA", "statusB", "hookA", "hookB"}

Components == {"statusA", "statusB"}

\* ConnectionStatus.tsx:6, 64: useState(true), useState(null)
InitialState(kind) ==
    CASE kind = "statusA" -> "true"
      [] kind = "statusB" -> "null"
      [] OTHER -> "null"

\* ConnectionStatus.tsx:34-36, 178-179; useConnectionRecovery.ts:49-50: the
\* events the effect registers handlers for
Listens(kind) ==
    CASE kind = "statusA" -> {"click", "keydown", "scroll"}
      [] kind = "statusB" -> {}
      [] kind = "hookA" -> {"focus", "visibilitychange"}
      [] kind = "hookB" -> {"online", "offline"}

\* how a probe's read ends: rows, an error value, a thrown exception
ReadOutcomes == {"ok", "error", "threw"}

testConnection_notThrown(o) == o # "threw"

\* supabase.ts:454-458, useConnectionRecovery.ts:157-162: return !error, and
\* false from the catch block
testConnection(o) == o = "ok"

---------------------------------------------------------------------------
(* The repository while the health check of the pool runs: the timer fires *)
(* and its read is answered between the steps of an operation.             *)

\* how many health-check reads are in flight at once while an operation runs
MaxChecks == 1

\* A repository operation is called: saves, then one get or getAll.
CallDuringChecks ==
    /\ opKind \in {"none", "save"}
    /\ (CallSaveFew \/ CallGet \/ CallGetAll)

\* the interval timer of the health check fires
TickDuringCall ==
    /\ Len(probing) < MaxChecks
    /\ HealthCheckTick

NextRebuild ==
    \/ WarmupEnds
    \/ CallDuringChecks \/ UpsertDone \/ DeleteDone \/ InsertDone
    \/ SelectResumeDone \/ SelectChildrenDone
    \/ SelectResumesDone \/ ChildFetchDone
    \/ WakeOp
    \/ TickDuringCall \/ HealthCheckAnswers \/ HealthCheckThrows

SpecRebuild == Init /\ [][NextRebuild]_vars

\* Everything but the monitor, the timers and the round-robin index of the
\* pool stays as it is.
MonitorFrame ==
    UNCHANGED <<variant, pc, opKind, attempt, lastError, client, delays, outcome,
                mockVars, storeVars, opVars, envVars,
                clients, nextHandle, healthCheckInterval, probing, stops, lastCheck,
                warmup,
                running>>

\* A probe starts: testConnection runs to its await.  supabase.ts:453-454
\* (the handle is taken from the pool), useConnectionRecovery.ts:157; then
\* ConnectionStatus.tsx:10, 68: setIsActive(true), setIsChecking(true)
StartProbe(kind, trigger) ==
    /\ issued < MaxProbes
    /\ Len(flights) < MaxFlights
    /\ issued' = issued + 1
    /\ reads' = reads + 1
    /\ flights' = Append(flights, issued + 1)
    /\ triggers' = Append(triggers, trigger)
    /\ IF variant = "pool" THEN Acquire ELSE UNCHANGED <<currentIndex, acquired>>
    /\ isChecking' = IF kind \in Components /\ phase # "torn" THEN TRUE ELSE isChecking

\* ConnectionStatus.tsx:21-36, 79-84, 158-179; useConnectionRecovery.ts:30-50:
\* the effect runs: the first probe, the interval timer, the handlers
MonitorMount ==
    /\ phase = "unmounted"
    /\ phase' = "mounted"
    /\ \E kind \in Monitors :
          /\ monitor' = kind
          /\ isConnected' = InitialState(kind)
          /\ listeners' = Listens(kind)
          /\ StartProbe(kind, "effect")
    /\ interval' = 2
    /\ timers' = timers \cup {2}
    /\ UNCHANGED <<timeouts, completed, callbacks, clears>>
    /\ MonitorFrame

\* useConnectionRecovery.ts:57, ConnectionStatus.tsx:186: the host renders a
\* mounted hook again with another callback or another checkInterval, so the
\* dependencies of the effect have changed: React runs the cleanup of the
\* effect (useConnectionRecovery.ts:52-56, ConnectionStatus.tsx:181-185:
\* clearInterval, the handlers removed) and then the effect again (a probe
\* at once, a new interval timer, the handlers registered).  The effects of
\* the components have no dependencies (ConnectionStatus.tsx:44, 87) and run
\* once.
MonitorRerun ==
    /\ monitor \in Monitors \ Components
    /\ phase = "mounted"
    /\ Len(clears) < MaxReruns
    /\ clears' = Append(clears, interval)
    /\ StartProbe(monitor, "effect")
    /\ interval' = interval + 1
    /\ timers' = (timers \ {interval}) \cup {interval + 1}
    /\ listeners' = Listens(monitor)
    /\ UNCHANGED <<monitor, phase, isConnected, timeouts, completed, callbacks>>
    /\ MonitorFrame

\* the interval timer fires: ConnectionStatus.tsx:26, 84, 163;
\* useConnectionRecovery.ts:35
MonitorTick ==
    /\ interval \in timers
    /\ StartProbe(monitor, "tick")
    /\ UNCHANGED <<monitor, phase, isConnected, timeouts, interval, listeners, timers,
                   completed, callbacks, clears>>
    /\ MonitorFrame

\* an event with a registered handler: ConnectionStatus.tsx:29-31, 166-176;
\* useConnectionRecovery.ts:38-47 (visibilitychange: the document is not
\* hidden)
MonitorEvent ==
    /\ \E e \in listeners :
          IF e = "offline"
          THEN /\ Len(callbacks) < MaxProbes
               /\ callbacks' = Append(callbacks, [name |-> "lost", at |-> 0])
               /\ UNCHANGED <<isChecking, flights, issued, reads, triggers, currentIndex,
                              acquired>>
          ELSE /\ StartProbe(monitor, "event")
               /\ UNCHANGED callbacks
    /\ UNCHANGED <<monitor, phase, isConnected, timeouts, interval, listeners, timers,
                   completed, clears>>
    /\ MonitorFrame

\* ConnectionStatus.tsx:109-116: the button Retry, rendered when the state
\* is lost and no check is shown as running
MonitorRetry ==
    /\ monitor = "statusB" /\ phase = "mounted"
    /\ isConnected = "false" /\ ~isChecking
    /\ StartProbe(monitor, "retry")
    /\ UNCHANGED <<monitor, phase, isConnected, timeouts, interval, listeners, timers,
                   completed, callbacks, clears>>
    /\ MonitorFrame

\* useConnectionRecovery.ts:59, ConnectionStatus.tsx:188: the host calls the
\* function the hook returned (maintainConnection, checkConnectionStatus);
\* it holds the function from the first render on, also after the hook was
\* unmounted
MonitorCall ==
    /\ monitor \in Monitors \ Components
    /\ phase \in {"mounted", "torn"}
    /\ StartProbe(monitor, "host")
    /\ UNCHANGED <<monitor, phase, isConnected, timeouts, interval, listeners, timers,
                   completed, callbacks, clears>>
    /\ MonitorFrame

\* a boolean as a value of the state isConnected
StateOf(b) == IF b THEN "true" ELSE "false"

setIsConnected_onlyLost(connected) ==
    isConnected' = IF phase = "mounted" /\ ~connected THEN StateOf(connected)
                                                      ELSE isConnected

\* ConnectionStatus.tsx:13, 71: setIsConnected(connected); a state update of
\* an unmounted component does nothing
setIsConnected(connected) ==
    isConnected' = IF phase = "mounted" THEN StateOf(connected) ELSE isConnected

\* The callback a hook invokes when a probe gave `connected` (none: none).
\* useConnectionRecovery.ts:19-21; ConnectionStatus.tsx:142-146
CallbackOf(kind, connected) ==
    CASE kind = "hookA" -> IF connected THEN "active" ELSE "none"
      [] kind = "hookB" -> IF connected THEN "restored" ELSE "lost"
      [] OTHER -> "none"

\* The read of a probe ends, testConnection returns, and the monitor's code
\* after its await runs: ConnectionStatus.tsx:12-18, 70-76, 140-148;
\* useConnectionRecovery.ts:17-23
ProbeEnds ==
    /\ \E i \in DOMAIN flights : \E o \in ReadOutcomes :
          LET connected == testConnection(o)
              called == CallbackOf(monitor, connected)
          IN /\ flights' = Remove(flights, i)
             /\ completed' = Append(completed, [seq |-> flights[i], outcome |-> o,
                                                connected |-> connected])
             /\ callbacks' = IF called = "none"
                             THEN callbacks
                             ELSE Append(callbacks,
                                         [name |-> called, at |-> Len(completed) + 1])
             /\ IF monitor \in Components
                THEN setIsConnected(connected)
                ELSE UNCHANGED isConnected
    /\ isChecking' = IF monitor = "statusB" /\ phase = "mounted" THEN FALSE ELSE isChecking
    /\ timeouts' = IF monitor = "statusA" THEN timeouts + 1 ELSE timeouts
    /\ UNCHANGED <<monitor, phase, interval, listeners, timers, issued, reads, triggers,
                   clears,
                   currentIndex, acquired>>
    /\ MonitorFrame

\* ConnectionStatus.tsx:17: a 500 ms timeout fires: setIsActive(false)
ActiveTimeout ==
    /\ timeouts > 0
    /\ timeouts' = timeouts - 1
    /\ isChecking' = IF phase = "mounted" THEN FALSE ELSE isChecking
    /\ UNCHANGED <<monitor, phase, isConnected, interval, listeners, timers, flights,
                   issued, reads, completed, callbacks, triggers, clears, currentIndex,
                   acquired>>
    /\ MonitorFrame

cleanupEffect_keepsListeners ==
    /\ timers' = timers \ {interval}
    /\ listeners' = listeners
    /\ clears' = Append(clears, interval)

\* ConnectionStatus.tsx:38-43, 86, 181-185; useConnectionRecovery.ts:52-56:
\* the function the effect returned
cleanupEffect ==
    /\ timers' = timers \ {interval}
    /\ listeners' = {}
    /\ clears' = Append(clears, interval)

\* the monitor is unmounted: React runs the cleanup of the effect, once
MonitorTeardown ==
    /\ phase = "mounted"
    /\ phase' = "torn"
    /\ cleanupEffect
    /\ UNCHANGED <<monitor, isConnected, isChecking, timeouts, interval, flights, issued,
                   reads, triggers, completed, callbacks, currentIndex, acquired>>
    /\ MonitorFrame

NextMonitor ==
    \/ WarmupEnds
    \/ MonitorMount \/ MonitorRerun \/ MonitorTick \/ MonitorEvent \/ MonitorRetry
    \/ MonitorCall
    \/ ProbeEnds \/ ActiveTimeout \/ MonitorTeardown

SpecMonitor == Init /\ [][NextMonitor]_vars

---------------------------------------------------------------------------
(* Claims about the executor, checked under SpecExec.                      *)

AllTransient == \A i \in DOMAIN raised : isRetryable(raised[i])

Threw(e) == <<[kind |-> "threw", val |-> e]>>

\* The number the code is configured with: the parameter maxRetries of
\* executeWithPermanentConnection, RETRY_CONFIG.maxRetries of withRetry.
Configured == IF variant = "pool" THEN maxRetries ELSE RETRY_CONFIG.maxRetries

\* The invocations the loop allows.
Attempts == IF variant = "pool" THEN maxRetries ELSE RETRY_CONFIG.maxRetries + 1

\* C1 as stated: when every attempt fails with a retryable error, the
\* operation has been invoked exactly as many times as the configured number,
\* and the call ends by throwing the error of the last attempt.
C1_Original ==
    (pc = "threw" /\ AllTransient)
        => (calls = Configured /\ outcome = Threw(Last(raised)))

\* C1 amended: when every attempt fails with a retryable error, the call
\* ends by throwing the error of the last attempt after exactly maxRetries
\* invocations in executeWithPermanentConnection and exactly
\* RETRY_CONFIG.maxRetries + 1 invocations in withRetry; until then it does
\* not end.
C1_SustainedFailure ==
    /\ (pc = "threw" /\ AllTransient)
          => (calls = Attempts /\ Len(raised) = calls /\ outcome = Threw(Last(raised)))
    /\ calls <= Attempts

C1_Witness ==
    /\ variant = "retry"
    /\ pc = "threw"
    /\ AllTransient
    /\ calls = RETRY_CONFIG.maxRetries + 1

\* What C2 says of the error raised by invocation i, when it is not
\* retryable: it is the last invocation, no sleep follows it, and the call
\* has ended by throwing this error.
RethrownAtOnce(i) ==
    /\ calls = i
    /\ Len(delays) = i - 1
    /\ pc = "threw"
    /\ outcome = Threw(raised[i])

\* C2 as stated: in both executors an error that is not retryable is
\* rethrown at once.
C2_Original ==
    \A i \in DOMAIN raised : ~isRetryable(raised[i]) => RethrownAtOnce(i)

\* C2 amended: withRetry rethrows an error that is not retryable at once
\* (one invocation and no sleep when it is the first attempt's);
\* executeWithPermanentConnection does not classify: it sleeps and retries
\* after every error, and throws only when maxRetries invocations failed.
C2_PermanentError ==
    /\ variant = "retry"
          => \A i \in DOMAIN raised : ~isRetryable(raised[i]) => RethrownAtOnce(i)
    /\ variant = "pool"
          => /\ pc = "threw" => calls = maxRetries
             /\ Len(delays) = IF pc \in {"sleep", "threw"} THEN Min(Len(raised), maxRetries - 1)
                                                              ELSE Len(raised)

C2_Witness ==
    /\ variant = "retry"
    /\ pc = "threw"
    /\ calls = 1
    /\ delays = <<>>
    /\ ~isRetryable(raised[1])
    /\ raised[1].isError

\* C3 as stated: in both executors the delay slept after failed attempt k
\* is min(base * 2^k, cap), with the base the delay of attempt 0 and the cap
\* RETRY_CONFIG.maxDelay, the only ceiling the code defines.
C3_Original ==
    \A i \in DOMAIN delays :
        delays[i] = Min((IF variant = "pool" THEN shortDelay ELSE RETRY_CONFIG.baseDelay)
                            * Pow2(i - 1),
                        RETRY_CONFIG.maxDelay)

\* C3 amended: withRetry sleeps min(baseDelay * 2^k, maxDelay) after failed
\* attempt k; executeWithPermanentConnection sleeps 100 * (k + 1) ms, with no
\* ceiling; in both the delays of one call never decrease.
C3_Backoff ==
    /\ \A i \in DOMAIN delays :
          delays[i] = IF variant = "pool"
                      THEN 100 * i
                      ELSE Min(1000 * Pow2(i - 1), 5000)
    /\ \A i, j \in DOMAIN delays : i <= j => delays[i] <= delays[j]
    /\ variant = "retry" => \A i \in DOMAIN delays : delays[i] <= 5000

C3_Witness ==
    /\ variant = "retry"
    /\ Len(delays) = 3
    /\ delays[3] = 4000

\* C4: an executor call has at most one terminal outcome, and exactly one
\* once it has ended; a returned value is the result of the one invocation
\* that succeeded, which is the last invocation; a thrown error is one that
\* an invocation raised, and then no invocation succeeded.
C4_OneOutcome ==
    /\ Len(outcome) <= 1
    /\ Len(returned) <= 1
    /\ (pc \in {"returned", "threw"}) <=> (Len(outcome) = 1)
    /\ Len(returned) = 1 => (pc = "returned" /\ calls = Len(raised) + 1)
    /\ pc = "returned" => outcome = <<[kind |-> "returned", val |-> returned[1]]>>
    /\ pc = "threw" => /\ outcome[1].kind = "threw"
                       /\ outcome[1].val \in Range(raised)
                       /\ returned = <<>>
                       /\ calls = Len(raised)

C4_Witness ==
    /\ pc = "returned"
    /\ Len(raised) = 2
    /\ calls = 3
    /\ outcome = <<[kind |-> "returned", val |-> returned[1]]>>

---------------------------------------------------------------------------
(* Claims about the repository on a backend that answers every call        *)
(* without error, checked under SpecRepo.                                  *)

\* the rows stored under resume identifier id in the table of kind k
Stored(k, id) == LET mine(r) == r.resume_id = id IN SelectSeq(Table(k), mine)

\* The rows stored under id in the table of kind k are exactly the rows of
\* the collection c: as many as c has entries, and read by their order keys
\* they give the entries of c.
ExactlyRows(k, id, c) ==
    /\ Len(Stored(k, id)) = Len(c)
    /\ \A data \in SelectByResume(Table(k), id) : FromRows(k, data) = c

\* a save has returned without error
SaveSucceeded == opKind = "save" /\ pc = "returned" /\ result.error = Null

\* C5: when a save returns without error, and the last successful save
\* before it was of the same identifier with a longer collection of some
\* kind (not deleted since), then the rows stored under the identifier in
\* that kind are exactly the rows of the collection now saved, which may be
\* empty: no row of the longer collection is left.
C5_ShorterCollection ==
    [][ (opKind = "save" /\ pc = "op" /\ pc' = "returned"
            /\ saved # Null /\ saved.id = result'.id)
          => \A i \in DOMAIN Kinds :
                Len(arg[Kinds[i]]) < Len(saved.resume[Kinds[i]])
                    => ExactlyRows(Kinds[i], result.id, arg[Kinds[i]])' ]_vars

\* what C6 compares: the profile fields, the skills and the three collections
ContentFields ==
    {"name", "email", "phone", "location", "linkedin", "website", "summary",
     "skills", "experience", "education", "certifications"}

SameContent(a, r) == \A f \in ContentFields : a[f] = r[f]

\* C6: a get of the identifier that the last successful save returned (the
\* resume not deleted since) returns, whatever was saved and deleted before,
\* without error a resume whose profile fields, skills and three collections
\* are those of the saved resume.
C6_RoundTrip ==
    (opKind = "get" /\ pc \in {"returned", "threw"} /\ saved # Null /\ arg = saved.id)
        => /\ pc = "returned"
           /\ result.error = Null
           /\ result.resume # Null
           /\ SameContent(result.resume, saved.resume)

\* C7: when a save has returned without error, for every kind the rows
\* stored under the returned identifier are as many as the collection has
\* entries (n), their order keys are the set 0..n-1, and the row of order
\* key p - 1 holds the entry at position p of the collection.
C7_DenseOrderKeys ==
    SaveSucceeded =>
        \A i \in DOMAIN Kinds :
            LET k == Kinds[i]
                rows == Stored(k, result.id)
                n == Len(arg[k])
            IN /\ Len(rows) = n
               /\ { rows[j].order_index : j \in DOMAIN rows } = 0..(n - 1)
               /\ \A p \in 1..n : \A j \in DOMAIN rows :
                     rows[j].order_index = p - 1
                         => FromRows(k, <<rows[j]>>) = <<arg[k][p]>>

\* the table resumes holds a row of identifier id
HasParentRow(id) == \E i \in DOMAIN resumes : resumes[i].id = id

NotFoundWords == { NoRows.message, ResumeNotFound.message }

\* C8: when delete(id) has returned without error no parent row of id is
\* stored; and a get(id) that ends while no parent row of id is stored (as
\* after that delete, with no save of id since) ends with a null resume and
\* a not-found error: the store's no-row error or 'Resume not found'.
C8_NotFound ==
    /\ (opKind = "delete" /\ pc = "returned")
          => (result.error = Null /\ ~HasParentRow(arg))
    /\ (opKind = "get" /\ pc \in {"returned", "threw"} /\ ~HasParentRow(arg))
          => /\ pc = "threw"
             /\ result.resume = Null
             /\ result.error # Null
             /\ result.error.message \in NotFoundWords

\* a get of a generated identifier whose resume was saved and then deleted
\* ends with not-found
C8_Witness ==
    /\ opKind = "get" /\ pc = "threw"
    /\ arg = uuidv4(1)
    /\ nextUuid = 3 /\ writes = 2 /\ saved = Null
    /\ resumes = <<>>
    /\ result.resume = Null
    /\ result.error.message = ResumeNotFound.message

---------------------------------------------------------------------------
(* Claims about the repository on a backend whose calls may fail, checked  *)
(* under SpecFaults.                                                       *)

RepoKinds == {"save", "get", "getAll", "delete"}

\* the fields of the result/error pair of each operation
PairFields(kind) ==
    CASE kind = "save" -> {"id", "error"}
      [] kind = "get" -> {"resume", "error"}
      [] kind = "getAll" -> {"resumes", "error"}
      [] kind = "delete" -> {"error"}

\* the result field of the pair r holds the empty value
EmptyValue(kind, r) ==
    CASE kind = "save" -> r.id = NoId
      [] kind = "get" -> r.resume = Null
      [] kind = "getAll" -> r.resumes = <<>>
      [] kind = "delete" -> TRUE

\* null or undefined
Nullish(e) == e = Null \/ e = Undefined

\* the operation did not succeed: its executor call ended by throwing, or it
\* returned from an attempt a backend call of which had failed
NotSucceeded == pc = "threw" \/ (pc = "returned" /\ failed # None)

\* C9: a repository operation that has ended, whatever its backend calls
\* answered (rows, an error value, a thrown exception, retries exhausted),
\* has given its caller a result/error pair; the error of the pair is
\* non-null exactly when the operation did not succeed, and then the result
\* field is the empty value; until the operation ends the caller has nothing.
C9_ResultErrorPair ==
    opKind \in RepoKinds =>
        /\ pc \in {"op", "sleep"} => result = Null
        /\ pc \in {"returned", "threw"} =>
              /\ DOMAIN result = PairFields(opKind)
              /\ ~Nullish(result.error) <=> NotSucceeded
              /\ NotSucceeded => EmptyValue(opKind, result)

\* C10 as stated: once a step of a save has failed the save issues no
\* further backend call, and it ends by returning an error.
C10_Original ==
    (opKind = "save" /\ hit)
        => /\ inflight = None
           /\ pc \in {"returned", "threw"} => (pc = "threw" /\ ~Nullish(result.error))

\* C10 amended: a failed step ends the attempt of the save it belongs to:
\* the attempt issues no further backend call.  The executor then sleeps and
\* runs the save again from the parent upsert, unless the attempt was its
\* last (or, in withRetry, the error is not retryable); only then the save
\* ends, returning '' and the error of this last failed step.  A save that an
\* attempt completes returns its identifier without error, whatever steps
\* failed in earlier attempts.
C10_AttemptAborted ==
    opKind = "save" =>
        /\ failed # None => (inflight = None /\ local = Null /\ pc \in {"sleep", "threw"})
        /\ pc = "sleep" => /\ failed # None
                           /\ LoopContinues(attempt + 1)
                           /\ variant = "retry" => isRetryable(lastError)
        /\ pc = "threw" => /\ failed # None
                           /\ result = [id |-> NoId, error |-> lastError]
                           /\ lastError.at = attempt + 1
                           /\ variant = "pool" => attempt + 1 = maxRetries
                           /\ variant = "retry" =>
                                 (~isRetryable(lastError) \/ attempt = RETRY_CONFIG.maxRetries)
        /\ pc = "returned" =>
              /\ failed = None
              /\ result.error = Null
              /\ result.id = saved.id
              /\ IF arg.id # NoId
                 THEN result.id = arg.id
                 ELSE result.id \in { uuidv4(n) : n \in 1..nextUuid }

\* a save, the second write of the behaviour, whose first attempt met a
\* failing step ends in its second attempt without error
C10_Witness ==
    /\ opKind = "save" /\ pc = "returned"
    /\ hit
    /\ attempt = 1
    /\ lastError.at = 1
    /\ result.error = Null
    /\ writes = 2

---------------------------------------------------------------------------
(* Claims about the handle pool, checked under SpecPool.                   *)

\* C11 (the variant "pool"; the variant "retry" has no pool): the pool holds
\* poolSize distinct handles and its index is within
\* 0..poolSize-1; every handle getClient() returned since the last rebuild
\* is defined and is one of the pool's handles; any poolSize consecutive
\* returns are of poolSize different handles (each handle once), and the
\* return that follows them is the first of them again (the same cyclic
\* order).
C11_RoundRobin ==
    /\ currentIndex \in 0..(poolSize - 1)
    /\ variant = "pool" => Len(clients) = poolSize
    /\ \A i, j \in DOMAIN clients : clients[i] = clients[j] => i = j
    /\ \A i \in DOMAIN acquired :
          /\ acquired[i] # NoHandle
          /\ acquired[i] \in Range(clients)
          /\ (i + poolSize) \in DOMAIN acquired => acquired[i + poolSize] = acquired[i]
          /\ \A j \in DOMAIN acquired :
                (i < j /\ j < i + poolSize) => acquired[i] # acquired[j]

\* after a rebuild, poolSize + 1 handles were returned: the new handles,
\* each once, and the first of them again
C11_Witness ==
    /\ nextHandle = 2 * poolSize
    /\ Len(acquired) = poolSize + 1
    /\ { acquired[i] : i \in 1..poolSize } = Range(clients)
    /\ acquired[poolSize + 1] = acquired[1]

\* a health-check read has ended in this step
HealthCheckEnds == Len(probing') < Len(probing)

\* the pool holds poolSize new handles, none of them a handle it held
Rebuilt ==
    /\ Len(clients') = poolSize
    /\ Range(clients') \cap Range(clients) = {}

\* C12: when a health-check read ends in failure, the failure an error
\* value the read answered or an exception it threw, the pool then holds
\* poolSize new handles and none of the old; when it ends in success the
\* handles are left as they were.
C12_RebuildOnFailure ==
    [][ HealthCheckEnds
          => IF lastCheck' \in {"error", "threw"} THEN Rebuilt ELSE clients' = clients ]_vars

\* C13: once destroy() was called the interval timer of the health check is
\* not set and no health-check read is started any more; a further call of
\* destroy() changes nothing of the pool and its timer.
C13_Stopped ==
    /\ [](stops > 0 => healthCheckInterval \notin timers)
    /\ [][ stops > 0
             => /\ Len(probing') <= Len(probing)
                /\ stops' # stops
                      => UNCHANGED <<clients, nextHandle, currentIndex,
                                     healthCheckInterval, timers, probing, acquired,
                                     lastCheck>> ]_vars

\* destroy() was called twice while a health-check read was in flight
C13_Witness ==
    /\ stops = 2
    /\ timers = {}
    /\ Len(probing) = 1

---------------------------------------------------------------------------
(* Claims about the reachability monitors, checked under SpecMonitor.      *)

\* the monitor is a mounted ConnectionStatus component
Shown == monitor \in Components /\ phase = "mounted"

\* C14 as stated: the reachability state of a mounted component is unknown
\* until a probe has completed, and from then on it is what the probe that
\* completed last found: active on success, lost on failure.
C14_Original ==
    Shown =>
        IF completed = <<>>
        THEN isConnected = "null"
        ELSE isConnected = (IF Last(completed).connected THEN "true" ELSE "false")

\* C14: a mounted component whose state is (boolean | null) is unknown until
\* its first probe completes, a mounted component whose state is boolean is
\* active until then; once a probe has completed the state is what the probe
\* that completed last found, active on success and lost on failure; and a
\* state that is not unknown never becomes unknown.
C14_KnownAfterFirstProbe ==
    /\ [](Shown =>
            IF completed = <<>>
            THEN isConnected = (IF monitor = "statusB" THEN "null" ELSE "true")
            ELSE isConnected = (IF Last(completed).connected THEN "true" ELSE "false"))
    /\ [][isConnected # "null" => isConnected' # "null"]_vars

\* C14: unknown, then lost on the first probe, then active on the second
C14_Witness ==
    /\ monitor = "statusB" /\ phase = "mounted"
    /\ Len(completed) = 2
    /\ ~completed[1].connected /\ completed[2].connected
    /\ isConnected = "true"

\* a probe completes in this step
ProbeCompletes == Len(completed') = Len(completed) + 1

\* C15: when a probe completes in a mounted component after a probe that was
\* issued later than it has already completed, the reachability state stays
\* as it was: a stale result never overwrites a newer one.
C15_StaleIgnored ==
    [][(Shown /\ ProbeCompletes
          /\ \E newer \in Range(completed) : newer.seq > Last(completed').seq)
       => isConnected' = isConnected]_vars

\* the interval timers the effect of the monitor has set
EffectTimers == IF interval = 0 THEN {} ELSE 2..interval

\* how many times clearInterval was called with the timer id t
Cleared(t) == Cardinality({ i \in DOMAIN clears : clears[i] = t })

\* C16: a monitor that was torn down has had every interval timer its effect
\* set canceled exactly once, none of them is set any more, it listens to no
\* event, and it starts no new probe, whatever ticks, events, runs of the
\* effect and probe completions came before or come after: the one probe that
\* can start after teardown is not the monitor's but the host's, which calls
\* the check function the hook returned to it; before teardown the timer of
\* the last run of the effect is set and was not canceled, and the timers of
\* the runs before it were canceled exactly once.
C16_TornDown ==
    /\ [](phase = "torn" => /\ EffectTimers \cap timers = {}
                            /\ listeners = {}
                            /\ \A t \in EffectTimers : Cleared(t) = 1
                            /\ Last(clears) = interval)
    /\ [](phase = "mounted" => /\ EffectTimers \cap timers = {interval}
                               /\ Cleared(interval) = 0
                               /\ \A t \in EffectTimers \ {interval} : Cleared(t) = 1)
    /\ [][phase = "torn" =>
            IF issued' = issued
            THEN flights' \in {flights} \cup {Remove(flights, i) : i \in DOMAIN flights}
            ELSE /\ monitor \notin Components
                 /\ triggers' = Append(triggers, "host")]_vars

\* C16: torn down after the effect ran a second time and a tick or an event
\* started a probe, with a probe still in flight
C16_Witness ==
    /\ phase = "torn"
    /\ monitor = "hookA"
    /\ clears = <<2, 3>>
    /\ issued = 3
    /\ triggers[3] \in {"tick", "event"}
    /\ flights # <<>>
    /\ completed # <<>>

\* C19: a hook invokes a callback only when the reachability state changes:
\* when a probe gives what the probe completed just before it gave (both
\* started and completed in this order, and no offline event in between), its
\* completion invokes no callback.
C19_OnlyOnChange ==
    (monitor \in Monitors \ Components /\ \A c \in Range(callbacks) : c.at # 0) =>
        \A i \in DOMAIN completed :
            (/\ i > 1
             /\ completed[i - 1].seq < completed[i].seq
             /\ completed[i].connected = completed[i - 1].connected)
                => \A c \in Range(callbacks) : c.at # i

\* C20 as stated: a probe is run through the resilient executor: while a
\* probe is in flight an executor call is in progress.
C20_Original == flights # <<>> => pc \in {"op", "sleep"}

\* C20: a probe is one read issued directly on the client (the pool's next
\* handle, or the single client), not through the executor: every probe
\* started has issued exactly one read and is in flight or completed, no
\* executor call is in progress and no backoff delay was slept; the probe
\* returns a boolean for every way its read ends, true exactly when the read
\* ended without an error value and without a thrown exception; with the
\* pool every probe advances the round-robin index by one (the handles taken
\* are those of the probes and the one of the warm-up read).
C20_SingleDirectRead ==
    /\ reads = issued
    /\ Len(flights) + Len(completed) = issued
    /\ pc = "idle" /\ attempt = 0 /\ delays = <<>>
    /\ \A i \in DOMAIN completed :
          /\ completed[i].connected \in BOOLEAN
          /\ completed[i].connected <=> completed[i].outcome \notin {"error", "threw"}
    /\ variant = "pool" => /\ Len(acquired) = Min(issued + 1, MaxAcquired)
                           /\ currentIndex = (issued + 1) % poolSize

\* C20: three probes have completed: one read without error, one with an
\* error value, one that threw
C20_Witness ==
    /\ variant = "pool"
    /\ Len(completed) = 3
    /\ { completed[i].outcome : i \in DOMAIN completed } = ReadOutcomes

---------------------------------------------------------------------------
(* Claims about the order of getAll, checked under SpecOrder.              *)

\* the identifiers of the stored parent rows
StoredIds == { resumes[i].id : i \in DOMAIN resumes }

\* the identifiers in the orders in which getAll may read the parent rows
IdOrders(tbl) == { [i \in DOMAIN rows |-> rows[i].id] : rows \in SelectAll(tbl) }

\* a comes before b in the sequence order
Before(order, a, b) ==
    \E m, n \in DOMAIN order : m < n /\ order[m] = a /\ order[n] = b

\* C17: getAll reads the parent rows by the time of their first save,
\* latest first, and a save of an identifier already stored does not move it:
\* when a step stores no new identifier and removes none, two resumes of
\* which getAll read the one saved later first are still read in that order.
C17_ResaveKeepsOrder ==
    [][StoredIds' = StoredIds =>
          \A x, y \in Range(resumes) :
              x.created_at < y.created_at =>
                  \A order \in IdOrders(resumes') : Before(order, y.id, x.id)]_vars

---------------------------------------------------------------------------
(* Claims about the steps of a save, checked under SpecFaults.             *)

\* the step issues the insert of the rows of the i-th kind
IssuesInsert(i) == inflight # <<"insert", i>> /\ inflight' = <<"insert", i>>

\* C18: within a save the insert of the rows of a kind is issued only by the
\* step in which the delete of that kind, for the identifier of this save,
\* is answered without error: the delete was in flight until this step, it
\* has not failed, the attempt is the one that issued it, the rows to insert
\* are made for this identifier, one for every entry, and no row of the kind
\* is stored under the identifier when the insert goes out.
C18_InsertAfterDelete ==
    [][\A i \in DOMAIN Kinds :
          IssuesInsert(i) =>
              /\ pc = "op" /\ opKind = "save"
              /\ inflight = <<"delete", i>>
              /\ failed = None /\ failed' = None
              /\ attempt' = attempt /\ pc' = "op"
              /\ local'.resumeId = local.resumeId
              /\ local'.resumeData = local.resumeData
              /\ Len(local'.childData) = Len(Collection(Kinds[i]))
              /\ \A r \in Range(local'.childData) : r.resume_id = local.resumeId
              /\ LET mine(r) == r.resume_id = local.resumeId
                 IN SelectSeq(Table(Kinds[i])', mine) = <<>>]_vars

\* C18: the insert of the education rows is in flight in a later attempt of
\* a save, after an earlier save stored rows and a call of this save failed
C18_Witness ==
    /\ pc = "op" /\ opKind = "save"
    /\ inflight = <<"insert", 2>>
    /\ outages = 1 /\ attempt > 0
    /\ saved # Null
    /\ resume_education = <<>>

---------------------------------------------------------------------------
(* Claims about the handle of an attempt, checked under SpecExec.          *)

\* an attempt of the executor is entered in this step
EntersAttempt == pc # "op" /\ pc' = "op"

\* handle h2 follows handle h1 in the round-robin order of the pool
Follows(h2, h1) ==
    \E i \in DOMAIN clients : clients[i] = h1 /\ clients[(i % poolSize) + 1] = h2

\* C21: with the pool, the step that enters an attempt takes one handle, the
\* one at the round-robin index, advances the index by one and invokes the
\* operation with it; no other step of the call takes a handle; and the
\* handle of a retry is not the handle of the attempt before it but the one
\* that follows it in round-robin order.
C21_FreshHandlePerAttempt ==
    [][variant = "pool" =>
          IF EntersAttempt
          THEN /\ client' = clientAt(clients, currentIndex)
               /\ client' \in Range(clients)
               /\ currentIndex' = (currentIndex + 1) % poolSize
               /\ acquired' = Taken(client')
               /\ attempt' > 0 => (client' # client /\ Follows(client', client))
          ELSE UNCHANGED <<client, currentIndex, acquired>>]_vars

\* C21: the fifth attempt of the first call runs on the first handle of the
\* pool, the index having wrapped around after four attempts on the four
\* handles that follow the one of the warm-up read
C21_Witness ==
    /\ variant = "pool"
    /\ pc = "op" /\ attempt = 4 /\ calls = 5
    /\ client = clients[1]
    /\ currentIndex = 1

---------------------------------------------------------------------------
(* Claims about the handle set, checked under SpecPool.                    *)

\* C22: between any two steps the pool (of the variant "pool") holds exactly
\* poolSize handles, all different; and a step that changes the handle set replaces all of it: none
\* of the handles it holds afterwards was a handle of the set before.
C22_WholesaleReplace ==
    /\ [](variant = "pool" =>
            (Len(clients) = poolSize /\ Cardinality(Range(clients)) = poolSize))
    /\ [][clients' # clients =>
            (Len(clients') = poolSize /\ Range(clients') \cap Range(clients) = {})]_vars

\* C22: the pool was rebuilt while another health-check read, issued on a
\* handle of the previous set, is still in flight
C22_Witness ==
    /\ lastCheck = "threw"
    /\ clients[1] = poolSize + 1
    /\ probing # <<>>
    /\ probing[1] \notin Range(clients)

---------------------------------------------------------------------------
(* Claims about the order of the child rows, checked under SpecStore.      *)

\* a get has returned a resume
GetReturned == opKind = "get" /\ pc = "returned" /\ result.error = Null
                   /\ result.resume # Null

\* the rows are in ascending order of their order key
AscendingKeys(rows) ==
    \A i, j \in DOMAIN rows : i < j => rows[i].order_index <= rows[j].order_index

\* C23: a resume returned by get(id) holds, for each of the three kinds, the
\* entries of exactly the stored rows of that kind whose resume reference is
\* id, in ascending order of their order key, wherever the rows lie in the
\* table.
C23_OrderedChildren ==
    GetReturned =>
        \A i \in DOMAIN Kinds :
            \E rows \in PhysicalOrders(Stored(Kinds[i], arg)) :
                /\ AscendingKeys(rows)
                /\ result.resume[Kinds[i]] = FromRows(Kinds[i], rows)

\* C23: get returned the resume of the given identifier while its two
\* experience rows lie in the table in descending order of their keys, behind
\* a row of another resume
C23_Witness ==
    /\ GetReturned /\ arg = GivenId
    /\ Len(resume_experiences) = 3
    /\ resume_experiences[1].resume_id # arg
    /\ resume_experiences[2].order_index > resume_experiences[3].order_index
    /\ Len(result.resume.experience) = 2

---------------------------------------------------------------------------
(* Claims about the identifier of a save, checked under SpecIdless.        *)

\* C24: a save of a resume without identifier creates at most one parent
\* row, however many attempts it takes: there are never more parent rows
\* than saves were called, and a save that returned without error returned
\* the identifier of a stored parent row.
C24_OneParentRow ==
    /\ Len(resumes) <= writes
    /\ SaveSucceeded => HasParentRow(result.id)

---------------------------------------------------------------------------
(* Claims about saves side by side, checked under SpecConcurrent.          *)

\* two saves of one identifier ran side by side and both returned without
\* error
BothSaved ==
    /\ Len(running) = 2
    /\ running[1].resumeId = running[2].resumeId
    /\ \A t \in DOMAIN running : running[t].result # Null /\ running[t].result.error = Null

\* C25: when two saves of one identifier that ran side by side have both
\* returned without error, the rows stored under the identifier in each kind
\* are exactly the collection one of the two submitted: not rows of both, and
\* no row twice.
C25_OneCollectionWins ==
    BothSaved =>
        \A i \in DOMAIN Kinds :
            \E t \in DOMAIN running :
                ExactlyRows(Kinds[i], running[t].resumeId,
                            CollectionOf(running[t].resume, Kinds[i]))

---------------------------------------------------------------------------
(* Claims about the handle of a call, checked under SpecRebuild.           *)

\* the operation in progress issues a backend call in this step
IssuesCall == pc' = "op" /\ inflight' # None /\ inflight' # inflight

\* C26: every backend call of a repository operation is issued on a handle
\* of the pool's handle set of that moment: the handle the attempt holds is
\* one of the pool's handles whenever the attempt issues a call, also when
\* the health check has rebuilt the pool since the attempt began.
C26_CallOnLiveHandle ==
    [][(variant = "pool" /\ IssuesCall) => client' \in Range(clients')]_vars

---------------------------------------------------------------------------
(* Claims about the result of getAll, checked under SpecFaults.            *)

\* getAll has returned without error
GetAllSucceeded == opKind = "getAll" /\ pc = "returned" /\ result.error = Null

\* C27: when getAll returns a null error, each of the three child sequences
\* of every resume it returns is exactly the rows stored for that resume: a
\* child fetch that failed never shows as an empty sequence of a resume
\* returned without error.
C27_CompleteOrError ==
    GetAllSucceeded =>
        \A j \in DOMAIN result.resumes : \A i \in DOMAIN Kinds :
            ExactlyRows(Kinds[i], result.resumes[j].id, result.resumes[j][Kinds[i]])

=============================================================================
